---- MODULE Spec2Model ----
(***************************************************************************)
(* A model of webpack.config.js: the three module rules (their regular     *)
(* expressions, evaluated character by character), the output naming       *)
(* templates, the loader chain of the style rule and the build that the    *)
(* walkthrough under the configuration describes step by step.             *)
(*                                                                         *)
(* A string is a sequence of one-character strings; a path is a sequence   *)
(* of segments, joined with "/" before a regular expression looks at it.   *)
(***************************************************************************)
EXTENDS Integers, Sequences, FiniteSets, TLC

\* ------------------------------------------------------------------ bounds

MaxDepth == 3        \* longest path (in segments) the rule matcher is given
MaxContent == 3      \* versions of src/index.js the editor can produce
HashSpace == 3       \* number of distinct digests of the content hash

\* ------------------------------------------------------------------ state

VARIABLES
    path,       \* MatchSpec: the resource path handed to the rules
    selected,   \* MatchSpec: whether the rules were evaluated for it
    applied,    \* MatchSpec: the rules that apply to it
    entry,      \* src/index.js as the build reads it: 0 when missing, else its version
    imports,    \* the asset files src/index.js imports (beside styles.scss)
    dist,       \* the output directory: a set of files
    pc,         \* the build's position
    before,     \* the output directory when the build started
    emitted,    \* the files the build wrote
    work,       \* the compilation: transformed modules and collected assets
    result,     \* "none", "running", "ok" or "failed"
    prev,       \* the build before this one: its sources and what it emitted
    older,      \* the hash tokens of the successful builds before prev
    changing    \* every build so far read other sources than the build before it

mvars == <<path, selected, applied>>
bvars == <<entry, imports, dist, pc, before, emitted, work, result, prev, older,
           changing>>
vars == <<mvars, bvars>>

\* ------------------------------------------------------------- characters

Lower(c) ==
    CASE c = "A" -> "a" [] c = "B" -> "b" [] c = "C" -> "c" [] c = "G" -> "g"
      [] c = "J" -> "j" [] c = "L" -> "l" [] c = "N" -> "n" [] c = "O" -> "o"
      [] c = "P" -> "p" [] c = "S" -> "s" [] OTHER -> c

LowerStr(s) == [i \in 1..Len(s) |-> Lower(s[i])]

RECURSIVE Join(_)
Join(segs) ==
    IF Len(segs) = 0 THEN <<>>
    ELSE IF Len(segs) = 1 THEN segs[1]
    ELSE segs[1] \o <<"/">> \o Join(Tail(segs))

EndsWith(s, suf) ==
    /\ Len(suf) <= Len(s)
    /\ SubSeq(s, Len(s) - Len(suf) + 1, Len(s)) = suf

StartsWith(s, pre) ==
    /\ Len(pre) <= Len(s)
    /\ SubSeq(s, 1, Len(pre)) = pre

\* ------------------------------------------------------ regular expressions
\* A regular expression of the configuration is a sequence of parts, each an
\* alternation of literals, with an optional end anchor ($) and the i flag.

L_scss == <<".", "s", "c", "s", "s">>
L_js == <<".", "j", "s">>
L_dot == <<".">>
L_png == <<"p", "n", "g">>
L_svg == <<"s", "v", "g">>
L_jpg == <<"j", "p", "g">>
L_jpeg == <<"j", "p", "e", "g">>
L_gif == <<"g", "i", "f">>
L_node_modules == <<"n", "o", "d", "e", "_", "m", "o", "d", "u", "l", "e", "s">>

LitAt(s, i, lit, ic) ==
    /\ i + Len(lit) - 1 <= Len(s)
    /\ \A k \in 1..Len(lit) :
          IF ic THEN Lower(s[i + k - 1]) = Lower(lit[k])
                ELSE s[i + k - 1] = lit[k]

\* The positions right after a match of parts[k..] that starts at position i.
RECURSIVE MatchEnds(_, _, _, _, _)
MatchEnds(parts, k, s, i, ic) ==
    IF k > Len(parts) THEN {i}
    ELSE UNION { MatchEnds(parts, k + 1, s, i + Len(lit), ic) :
                   lit \in { l \in parts[k] : LitAt(s, i, l, ic) } }

\* RegExp.prototype.test: a match may start anywhere; $ pins its end.
RegexTest(re, s) ==
    \E i \in 1..(Len(s) + 1) :
        \E e \in MatchEnds(re.parts, 1, s, i, re.ignoreCase) :
            re.endAnchor => e = Len(s) + 1

\* Mutant: the style test without its end anchor.
ScssTestUnanchored ==
    [parts |-> <<{L_scss}>>, endAnchor |-> FALSE, ignoreCase |-> FALSE]

ScssTest == [parts |-> <<{L_scss}>>, endAnchor |-> TRUE, ignoreCase |-> FALSE]

JsTest == [parts |-> <<{L_js}>>, endAnchor |-> TRUE, ignoreCase |-> FALSE]

NodeModulesExclude ==
    [parts |-> <<{L_node_modules}>>, endAnchor |-> FALSE, ignoreCase |-> FALSE]

\* Mutant: the asset test without the i flag.
AssetTestCaseSensitive ==
    [parts |-> <<{L_dot}, {L_png, L_svg, L_jpg, L_jpeg, L_gif}>>,
     endAnchor |-> TRUE, ignoreCase |-> FALSE]

AssetTest ==
    [parts |-> <<{L_dot}, {L_png, L_svg, L_jpg, L_jpeg, L_gif}>>,
     endAnchor |-> TRUE, ignoreCase |-> TRUE]

\* ------------------------------------------------------------ module rules

StyleUse == <<"style-loader", "css-loader", "sass-loader">>

StyleRule == [test |-> ScssTest, exclude |-> {}, use |-> StyleUse]

ScriptRule ==
    [test |-> JsTest, exclude |-> {NodeModulesExclude}, use |-> <<"babel-loader">>]

AssetRule == [test |-> AssetTest, exclude |-> {}, use |-> <<>>]

\* A rule applies to a resource when its test matches the resource's path and
\* no exclude does.
RuleApplies(rule, p) ==
    /\ RegexTest(rule.test, Join(p))
    /\ \A x \in rule.exclude : ~RegexTest(x, Join(p))

\* ------------------------------------------------------------------ paths

G_src == <<"s", "r", "c">>
G_img == <<"i", "m", "g">>
G_my_node_modules == <<"m", "y", "_">> \o L_node_modules
G_a_js == <<"a">> \o L_js
G_A_JS == <<"A", ".", "J", "S">>
G_a_jsx == <<"a">> \o L_js \o <<"x">>
G_node_modules_js == L_node_modules \o L_js
G_logo_png == <<"l", "o", "g", "o", ".">> \o L_png
G_LOGO_PNG == <<"L", "O", "G", "O", ".", "P", "N", "G">>
G_p_jpeg == <<"p", ".">> \o L_jpeg
G_p_Jpg == <<"p", ".", "J", "p", "g">>
G_i_svg == <<"i", ".">> \o L_svg
G_g_gif == <<"g", ".">> \o L_gif
G_b_bmp == <<"b", ".", "b", "m", "p">>
G_s_scss == <<"s">> \o L_scss
G_S_SCSS == <<"S", ".", "S", "C", "S", "S">>
G_s_css == <<"s", ".", "c", "s", "s">>

Segments ==
    {G_src, L_node_modules, G_my_node_modules, G_a_js, G_A_JS, G_a_jsx,
     G_node_modules_js, G_logo_png, G_LOGO_PNG, G_p_jpeg, G_p_Jpg, G_i_svg,
     G_g_gif, G_b_bmp, L_png, G_s_scss, G_S_SCSS, G_s_css}

Paths == UNION { [1..n -> Segments] : n \in 1..MaxDepth }

\* -------------------------------------------------------- output naming

EntryName == <<"b", "u", "n", "d", "l", "e">>
G_index_js == <<"i", "n", "d", "e", "x">> \o L_js
EntryPath == <<G_src, G_index_js>>
G_styles_scss == <<"s", "t", "y", "l", "e", "s">> \o L_scss
StylePath == <<G_src, G_styles_scss>>
G_index_html == <<"i", "n", "d", "e", "x", ".", "h", "t", "m", "l">>
HtmlFilename == G_index_html

\* Mutant: output.clean left off.
OutputCleanOff == FALSE

OutputClean == TRUE

Lit(l) == [tok |-> "", lit |-> l]
Tok(t) == [tok |-> t, lit |-> <<>>]

OutputFilename == <<Tok("name"), Tok("contenthash"), Lit(L_js)>>

AssetModuleFilename == <<Tok("name"), Tok("ext")>>

\* Substitution of a filename template's tokens.
RECURSIVE Render(_, _)
Render(template, data) ==
    IF Len(template) = 0 THEN <<>>
    ELSE (IF Head(template).tok = "" THEN Head(template).lit
          ELSE data[Head(template).tok])
         \o Render(Tail(template), data)

LastDot(s) ==
    LET dots == { i \in 1..Len(s) : s[i] = "." }
    IN  IF dots = {} THEN 0 ELSE CHOOSE i \in dots : \A j \in dots : j <= i

BaseName(p) == p[Len(p)]

\* [ext]: the base name from its last dot on (none for a leading dot).
ExtName(base) ==
    IF LastDot(base) <= 1 THEN <<>> ELSE SubSeq(base, LastDot(base), Len(base))

\* [name]: the base name without [ext].
StemName(base) == SubSeq(base, 1, Len(base) - Len(ExtName(base)))

Digits == <<"0", "1", "2", "3", "4", "5", "6", "7", "8", "9">>

HashChars(h) == <<Digits[h + 1]>>

UrlCode(u) == Len(u)

RECURSIVE SumCodes(_)
SumCodes(S) ==
    IF S = {} THEN 0
    ELSE LET u == CHOOSE x \in S : TRUE
         IN  UrlCode(u) + SumCodes(S \ {u})

\* Mutant: a hash that changes with the build, not only with the content.
ContentHashPerBuild(bundle) ==
    (bundle.script + (IF bundle.es5 THEN 0 ELSE 1) + SumCodes(bundle.urls)
        + Cardinality(older)) % HashSpace

\* [contenthash]: a digest of the emitted content, of a fixed width.
ContentHash(bundle) ==
    (bundle.script + (IF bundle.es5 THEN 0 ELSE 1) + SumCodes(bundle.urls))
        % HashSpace

ScriptName(bundle) ==
    Render(OutputFilename,
           [name |-> EntryName, contenthash |-> HashChars(ContentHash(bundle)),
            ext |-> L_js])

AssetName(p) ==
    Render(AssetModuleFilename,
           [name |-> StemName(BaseName(p)), ext |-> ExtName(BaseName(p)),
            contenthash |-> <<>>])

\* The hash token of an emitted script's name: what [name] and .js leave.
ScriptHash(name) == SubSeq(name, Len(EntryName) + 1, Len(name) - Len(L_js))

A_logo == <<G_src, G_logo_png>>
A_img_logo == <<G_src, G_img, G_logo_png>>
A_icon == <<G_src, G_i_svg>>

\* The sets of assets src/index.js is given to import.
ImportSets ==
    {{}, {A_logo}, {A_icon}, {A_logo, A_icon}, {A_logo, A_img_logo}}

File(n, js, ref, asset) == [name |-> n, js |-> js, ref |-> ref, asset |-> asset]

StaleScript == File(<<"o", "l", "d">> \o L_js, <<>>, <<>>, <<>>)

NoWork ==
    [script |-> <<>>, pending |-> <<>>, ran |-> <<>>, stage |-> "scss",
     assets |-> {}, conflict |-> FALSE, scriptName |-> <<>>]

NoBuild ==
    [ok |-> FALSE, entry |-> 0, imports |-> {}, content |-> <<>>, script |-> <<>>]

\* Before the first build: nothing built, the output directory d.
BInit(d) ==
    /\ entry = 0
    /\ imports = {}
    /\ dist = d
    /\ pc = "idle"
    /\ before = {}
    /\ emitted = {}
    /\ work = NoWork
    /\ result = "none"
    /\ prev = NoBuild
    /\ older = {}
    /\ changing = TRUE

\* --------------------------------------------------------------- matching

MInit ==
    /\ path \in Paths
    /\ selected = FALSE
    /\ applied = {}
    /\ BInit({})

Rules == [style |-> StyleRule, script |-> ScriptRule, asset |-> AssetRule]

\* The engine picks, for the resource, every rule that applies to it.
AppliedRules(p) == { r \in DOMAIN Rules : RuleApplies(Rules[r], p) }

SelectRules ==
    /\ ~selected
    /\ selected' = TRUE
    /\ applied' = AppliedRules(path)
    /\ UNCHANGED <<path, bvars>>

MNext == SelectRules

MatchSpec == MInit /\ [][MNext]_vars

\* --------------------------------------------------------------- the build

\* A file written to a directory replaces the file of that name.
Write(dir, f) == { g \in dir : g.name # f.name } \cup {f}

RECURSIVE WriteAll(_, _)
WriteAll(dir, files) ==
    IF files = {} THEN dir
    ELSE LET f == CHOOSE x \in files : TRUE
         IN  WriteAll(Write(dir, f), files \ {f})

\* Mutant: the emitted script carries a stamp of the build that wrote it.
BundleWithBuildStamp ==
    [script |-> work.script[1].version, es5 |-> work.script[1].es5,
     style |-> work.stage, urls |-> { f.name : f \in work.assets },
     stamp |-> Cardinality(older)]

\* The content of the script the compilation emits.
Bundle ==
    [script |-> work.script[1].version, es5 |-> work.script[1].es5,
     style |-> work.stage, urls |-> { f.name : f \in work.assets }]

\* One run of the engine over the sources as they are now: src/index.js in
\* version c (0: the file is missing), importing the assets imps.
StartBuild(c, imps) ==
    /\ pc = "idle"
    /\ pc' = "resolve"
    /\ entry' = c
    /\ imports' = imps
    /\ before' = dist
    /\ emitted' = {}
    /\ work' = NoWork
    /\ result' = "running"
    /\ prev' = IF result = "ok"
               THEN [ok |-> TRUE, entry |-> entry, imports |-> imports,
                     content |-> <<Bundle>>, script |-> work.scriptName]
               ELSE [NoBuild EXCEPT !.entry = entry, !.imports = imports]
    /\ older' = older \cup (IF prev.ok THEN {ScriptHash(prev.script)} ELSE {})
    /\ changing' = (changing /\ (result = "none" \/ <<c, imps>> # <<entry, imports>>))
    /\ UNCHANGED <<mvars, dist>>

\* Mutant: the document is still written when the build fails.
FailOutcomeLeavesHtml ==
    /\ pc' = "idle"
    /\ result' = "failed"
    /\ dist' = Write(dist, File(HtmlFilename, <<>>, EntryName \o L_js, <<>>))
    /\ UNCHANGED <<mvars, entry, imports, before, emitted, work, prev, older,
                   changing>>

\* A failed build emits nothing; the directory is left as it was or erased.
FailOutcome ==
    /\ pc' = "idle"
    /\ result' = "failed"
    /\ dist' \in {dist} \cup (IF OutputClean THEN {{}} ELSE {})
    /\ UNCHANGED <<mvars, entry, imports, before, emitted, work, prev, older,
                   changing>>

ResolveEntry ==
    /\ pc = "resolve"
    /\ entry # 0
    /\ pc' = "script"
    /\ UNCHANGED <<mvars, entry, imports, dist, before, emitted, work, result,
                   prev, older, changing>>

FailMissingEntry ==
    /\ pc = "resolve"
    /\ entry = 0
    /\ FailOutcome

TranspileScript ==
    /\ pc = "script"
    /\ work' = [work EXCEPT
                  !.script = <<[version |-> entry,
                                es5 |-> RuleApplies(ScriptRule, EntryPath)]>>,
                  !.pending = IF RuleApplies(StyleRule, StylePath)
                              THEN StyleRule.use ELSE <<>>]
    /\ pc' = "style"
    /\ UNCHANGED <<mvars, entry, imports, dist, before, emitted, result, prev,
                   older, changing>>

\* Mutant: the chain run left to right.
NextLoaderLeftmost(pending) == 1

\* The loader of a chain that runs next: the rightmost one not yet run.
NextLoader(pending) == Len(pending)

LoaderOutput(loader, stage) ==
    CASE loader = "sass-loader" /\ stage = "scss" -> "css"
      [] loader = "css-loader" /\ stage = "css" -> "resolved"
      [] loader = "style-loader" /\ stage = "resolved" -> "injected"
      [] OTHER -> "error"

RunLoader ==
    /\ pc = "style"
    /\ work.pending # <<>>
    /\ LET k == NextLoader(work.pending)
           l == work.pending[k]
           rest == [j \in 1..(Len(work.pending) - 1) |->
                      IF j < k THEN work.pending[j] ELSE work.pending[j + 1]]
       IN  /\ work' = [work EXCEPT !.pending = rest,
                                   !.ran = Append(work.ran, l),
                                   !.stage = LoaderOutput(l, work.stage)]
           /\ pc' = IF rest = <<>> THEN "assets" ELSE "style"
    /\ UNCHANGED <<mvars, entry, imports, dist, before, emitted, result, prev,
                   older, changing>>

AssetFile(a) == File(AssetName(a), <<>>, <<>>, <<a>>)

CopyAssets ==
    /\ pc = "assets"
    /\ LET files == { AssetFile(a) :
                        a \in { x \in imports : RuleApplies(AssetRule, x) } }
       IN  work' = [work EXCEPT
                      !.assets = files,
                      !.conflict = \E f, g \in files : f # g /\ f.name = g.name]
    /\ pc' = "emit"
    /\ UNCHANGED <<mvars, entry, imports, dist, before, emitted, result, prev,
                   older, changing>>

FailAssetConflict ==
    /\ pc = "emit"
    /\ work.conflict
    /\ FailOutcome

EmitBundle ==
    /\ pc = "emit"
    /\ ~work.conflict
    /\ LET script == File(ScriptName(Bundle), <<Bundle>>, <<>>, <<>>)
           out == {script} \cup work.assets
       IN  /\ dist' = WriteAll(IF OutputClean THEN {} ELSE dist, out)
           /\ emitted' = out
           /\ work' = [work EXCEPT !.scriptName = script.name]
    /\ pc' = "html"
    /\ UNCHANGED <<mvars, entry, imports, before, result, prev, older, changing>>

\* Mutant: the document references the script by its name without the hash.
HtmlScriptRefUnhashed == EntryName \o L_js

\* The script the generated document references.
HtmlScriptRef == work.scriptName

GenerateHtml ==
    /\ pc = "html"
    /\ LET html == File(HtmlFilename, <<>>, HtmlScriptRef, <<>>)
       IN  /\ dist' = Write(dist, html)
           /\ emitted' = emitted \cup {html}
    /\ pc' = "idle"
    /\ result' = "ok"
    /\ UNCHANGED <<mvars, entry, imports, before, work, prev, older, changing>>

Init ==
    /\ path = EntryPath
    /\ selected = TRUE
    /\ applied = AppliedRules(EntryPath)
    /\ \E d \in {{}, {StaleScript}} : BInit(d)

Next ==
    \/ \E c \in 0..MaxContent, imps \in ImportSets : StartBuild(c, imps)
    \/ ResolveEntry
    \/ FailMissingEntry
    \/ TranspileScript
    \/ RunLoader
    \/ CopyAssets
    \/ FailAssetConflict
    \/ EmitBundle
    \/ GenerateHtml

Spec == Init /\ [][Next]_vars

\* ----------------------------------------------------------------- claims

Finished == pc = "idle" /\ result = "ok"

\* The script files of a directory: the files the script rule's test matches.
Scripts(dir) == { f \in dir : RegexTest(JsTest, f.name) }

Named(dir, n) == { f \in dir : f.name = n }

SameSources == entry = prev.entry /\ imports = prev.imports

C2_EndToEnd ==
    (Finished /\ imports = {A_logo}) =>
        /\ Cardinality(Scripts(dist)) = 1
        /\ \A f \in Scripts(dist) :
              /\ f.js # <<>>
              /\ f.name = EntryName \o HashChars(ContentHash(f.js[1])) \o L_js
        /\ Cardinality(Named(dist, G_logo_png)) = 1
        /\ \A f \in Named(dist, G_logo_png) : f.asset = <<A_logo>>
        /\ Cardinality(Named(dist, G_index_html)) = 1
        /\ \A h \in Named(dist, G_index_html) :
              \E f \in Scripts(dist) : h.ref = f.name

C2_Witness ==
    /\ Finished
    /\ imports = {A_logo}
    /\ StaleScript \in before
    /\ \E h \in Named(dist, G_index_html) : Named(dist, h.ref) # {}

EarlierHashes == older \cup (IF prev.ok THEN {ScriptHash(prev.script)} ELSE {})

\* C3, as the specification states it: after builds between which the source
\* changed, the output directory holds only what the last build emitted and never
\* a script with the hash of an earlier build.
C3_NeverAnEarlierHash ==
    (Finished /\ changing) =>
        /\ dist = emitted
        /\ \A f \in Scripts(dist) : ScriptHash(f.name) \notin EarlierHashes

\* C3, amended: after a build the output directory holds exactly the files that
\* build emitted, and its only script is the one that build emitted; nothing a
\* previous build (or anyone before) left is still there.
C3_OnlyTheLastBuildsArtifacts ==
    Finished =>
        /\ dist = emitted
        /\ Scripts(dist) = Named(dist, work.scriptName)
        /\ \A f \in Scripts(dist) :
              f.js = <<Bundle>> /\ ScriptHash(f.name) = HashChars(ContentHash(Bundle))

C3_Witness ==
    /\ Finished
    /\ changing
    /\ prev.ok
    /\ ~SameSources
    /\ before # {}
    /\ before \cap dist = {}
    /\ ScriptHash(prev.script) # HashChars(ContentHash(Bundle))

InDependencyDir(p) == \E i \in 1..(Len(p) - 1) : p[i] = L_node_modules

\* C5: the script rule applies to a path if and only if the path ends in .js and
\* the file lies outside the dependency directory.
C5_ScriptRuleIffJsOutsideDependencies ==
    selected =>
        (("script" \in applied)
            <=> (EndsWith(Join(path), L_js) /\ ~InDependencyDir(path)))

AssetSuffixes == {L_png, L_svg, L_jpg, L_jpeg, L_gif}

\* C6: the asset rule accepts a path if and only if its suffix, letter case
\* aside, is one of .png, .svg, .jpg, .jpeg, .gif.
C6_AssetRuleIffImageSuffix ==
    selected =>
        (("asset" \in applied)
            <=> (\E e \in AssetSuffixes : EndsWith(LowerStr(Join(path)), L_dot \o e)))

C6_Witness ==
    /\ selected
    /\ "asset" \in applied
    /\ Join(path) # LowerStr(Join(path))
    /\ Len(path) > 1

\* C7: the style rule accepts the paths whose suffix is .scss and no others.
C7_StyleRuleIffScssSuffix ==
    selected => (("style" \in applied) <=> EndsWith(Join(path), L_scss))

C7_Witness ==
    /\ selected
    /\ "style" \in applied
    /\ Len(path) > 1
    /\ applied = {"style"}

ChainOrder == <<"sass-loader", "css-loader", "style-loader">>

StageAfter(n) == <<"scss", "css", "resolved", "injected">>[n + 1]

\* C8: for a file the style rule matches, the loaders run right to left:
\* sass-loader, then css-loader, then style-loader, each on the output of the one
\* before it, and none is skipped.
C8_ChainRunsRightToLeft ==
    RuleApplies(StyleRule, StylePath) =>
        /\ Len(work.ran) <= Len(ChainOrder)
        /\ work.ran = SubSeq(ChainOrder, 1, Len(work.ran))
        /\ work.stage = StageAfter(Len(work.ran))
        /\ (pc = "style" =>
               work.ran \o [j \in 1..Len(work.pending) |->
                              work.pending[Len(work.pending) + 1 - j]] = ChainOrder)
        /\ ((pc \in {"assets", "emit", "html"} \/ Finished) =>
               work.ran = ChainOrder)

C8_Witness ==
    /\ pc = "assets"
    /\ work.ran = ChainOrder
    /\ work.stage = "injected"

\* A broken artifact set: an emitted script without its document, a document
\* without the script, or a document that references a file that is not there.
Broken(dir) ==
    \/ (\E f \in dir : f.js # <<>>) # (Named(dir, G_index_html) # {})
    \/ \E h \in Named(dir, G_index_html) : Named(dir, h.ref) = {}

C10_DistinctAssetsDistinctNames ==
    (pc = "emit") =>
        \A a, b \in { x \in imports : RuleApplies(AssetRule, x) } :
            a # b => AssetName(a) # AssetName(b)

====
